---- MODULE Spec2Model ----
(***************************************************************************)
(* Model of LABA/course_platform.py: the Course class and its three        *)
(* subclasses, the dictionary codec (to_dict / from_dict) and the Platform *)
(* aggregate with its JSON persistence.                                    *)
(*                                                                         *)
(* Python objects are modelled by reference: every Course object lives in  *)
(* the pool `courses` and is named by its index; every Python list that    *)
(* holds student names lives in `heap` and is named by its index, so that  *)
(* two objects holding the same list are visible as such.                  *)
(***************************************************************************)
EXTENDS Integers, Sequences, FiniteSets, TLC

\* ---------------------------------------------------------------- bounds
MaxCourses == 2      \* Course objects made in one run of the course operations
MaxPool    == 3      \* Course objects made in one run of the platform operations
MaxStore   == 3      \* Course objects made in one run of the file operations
MaxCap     == 1      \* largest max_students handed to a constructor
MaxPlat    == 3      \* longest Platform course list built by add_course
MaxN       == 2      \* get_most_popular is called with n in -MaxN..MaxN

\* ---------------------------------------------------------------- inputs
Names       == {"A", "B"}
Titles      == {"t1", "t2"}
Instructors == {"ivanov"}
StartDates  == {"2025-01-10"}
EndDates    == {"2025-04-10"}
Attrs       == {"py"}
Kinds       == {"Course", "ProgrammingCourse", "DesignCourse", "ScienceCourse"}

VARIABLES
    heap,       \* heap[l]: contents of the Python list object l
    courses,    \* courses[c]: the attributes of the Course object c
    platform,   \* Platform.__courses: a sequence of Course object ids
    file,       \* the file on disk: "absent", "malformed" or a document
    ret         \* the last call and what it returned or raised

vars == <<heap, courses, platform, file, ret>>

\* the last call: typed fields, unused ones keep their defaults
NoRet ==
    [op |-> "none", target |-> 0, name |-> "", n |-> 0, out |-> "",
     list |-> <<>>, rate |-> <<0, 1>>]

\* ------------------------------------------------------------ Course class

\* Course.__init__: a fresh, empty student list l
Course_init(title, instructor, start_date, end_date, max_students, l) ==
    [kind |-> "Course", title |-> title, instructor |-> instructor,
     start_date |-> start_date, end_date |-> end_date,
     max_students |-> max_students, students |-> l]

ProgrammingCourse_init(title, instructor, start_date, end_date, max_students, language, l) ==
    [kind |-> "ProgrammingCourse", title |-> title, instructor |-> instructor,
     start_date |-> start_date, end_date |-> end_date,
     max_students |-> max_students, students |-> l, language |-> language]

DesignCourse_init(title, instructor, start_date, end_date, max_students, software, l) ==
    [kind |-> "DesignCourse", title |-> title, instructor |-> instructor,
     start_date |-> start_date, end_date |-> end_date,
     max_students |-> max_students, students |-> l, software |-> software]

ScienceCourse_init(title, instructor, start_date, end_date, max_students, field, l) ==
    [kind |-> "ScienceCourse", title |-> title, instructor |-> instructor,
     start_date |-> start_date, end_date |-> end_date,
     max_students |-> max_students, students |-> l, field |-> field]

\* the students property: the contents of the course's list
students(c) == heap[courses[c].students]

\* the discriminating attribute of a course object ("" for a plain Course)
Discriminator(co) ==
    IF co.kind = "ProgrammingCourse" THEN co.language
    ELSE IF co.kind = "DesignCourse" THEN co.software
    ELSE IF co.kind = "ScienceCourse" THEN co.field
    ELSE ""

\* a guard that lets one student too many in
IsFull_off_by_one(co, h) == Len(h[co.students]) > co.max_students

\* the guard of add_student: the course is full
IsFull(co, h) == Len(h[co.students]) >= co.max_students

\* an add_student that puts the new name first
add_student_at_front(co, h, name) ==
    IF IsFull(co, h)
    THEN [raised |-> TRUE, heap |-> h]
    ELSE [raised |-> FALSE, heap |-> [h EXCEPT ![co.students] = <<name>> \o @]]

\* Course.add_student: raise CourseFullError, or append to the course's list
add_student(co, h, name) ==
    IF IsFull(co, h)
    THEN [raised |-> TRUE, heap |-> h]
    ELSE [raised |-> FALSE, heap |-> [h EXCEPT ![co.students] = Append(@, name)]]

\* Course.completion_rate as an exact fraction <<numerator, denominator>>
completion_rate(co, h) ==
    IF co.max_students = 0
    THEN <<0, 1>>
    ELSE <<Len(h[co.students]) * 100, co.max_students>>

\* Course.to_dict: the dictionary holds the course's own list object
to_dict(co) ==
    [type |-> co.kind, title |-> co.title, instructor |-> co.instructor,
     start_date |-> co.start_date, end_date |-> co.end_date,
     max_students |-> co.max_students, students |-> co.students]

RequiredKeys == {"title", "instructor", "start_date", "end_date", "max_students"}

\* dict.get(key, default)
Get(data, key, default) == IF key \in DOMAIN data THEN data[key] ELSE default

\* Course.from_dict on a dictionary whose "students" value, when present, is
\* the list object data.students; h is the heap before the call.  A missing
\* required key raises KeyError; a missing "students" key gives a new empty
\* list.  The student list is stored as it is, without a capacity check.
from_dict(data, h) ==
    IF ~(RequiredKeys \subseteq DOMAIN data)
    THEN [ok |-> FALSE, heap |-> h]
    ELSE
      LET course_type == Get(data, "type", "None")
          hasList == "students" \in DOMAIN data
          h2 == IF hasList THEN h ELSE Append(h, <<>>)
          l  == IF hasList THEN data.students ELSE Len(h2)
          course ==
            IF course_type = "ProgrammingCourse" THEN
              ProgrammingCourse_init(data.title, data.instructor, data.start_date,
                  data.end_date, data.max_students, Get(data, "language", ""), l)
            ELSE IF course_type = "DesignCourse" THEN
              DesignCourse_init(data.title, data.instructor, data.start_date,
                  data.end_date, data.max_students, Get(data, "software", ""), l)
            ELSE IF course_type = "ScienceCourse" THEN
              ScienceCourse_init(data.title, data.instructor, data.start_date,
                  data.end_date, data.max_students, Get(data, "field", ""), l)
            ELSE
              Course_init(data.title, data.instructor, data.start_date,
                  data.end_date, data.max_students, l)
      IN [ok |-> TRUE, heap |-> h2, course |-> course]

\* ---------------------------------------------------------- Platform class

\* the sort key of get_most_popular: len(c.students)
Count(c, pool, h) == Len(h[pool[c].students])

\* a sort step that puts x before the elements with an equal key
RECURSIVE InsertDesc_unstable(_, _, _, _)
InsertDesc_unstable(x, s, pool, h) ==
    IF s = <<>> THEN <<x>>
    ELSE IF Count(Head(s), pool, h) > Count(x, pool, h)
         THEN <<Head(s)>> \o InsertDesc_unstable(x, Tail(s), pool, h)
         ELSE <<x>> \o s

\* one step of a stable descending sort: x goes behind every element whose
\* key is not smaller, so equal keys keep the order in which they arrive
RECURSIVE InsertDesc(_, _, _, _)
InsertDesc(x, s, pool, h) ==
    IF s = <<>> THEN <<x>>
    ELSE IF Count(Head(s), pool, h) >= Count(x, pool, h)
         THEN <<Head(s)>> \o InsertDesc(x, Tail(s), pool, h)
         ELSE <<x>> \o s

\* sorted(seq, key=lambda c: len(c.students), reverse=True)
RECURSIVE SortedDesc(_, _, _)
SortedDesc(s, pool, h) ==
    IF s = <<>> THEN <<>>
    ELSE InsertDesc(s[Len(s)], SortedDesc(SubSeq(s, 1, Len(s) - 1), pool, h), pool, h)

\* the Python slice s[:n]: a negative n counts from the end
Slice(s, n) ==
    IF n >= 0
    THEN SubSeq(s, 1, IF n < Len(s) THEN n ELSE Len(s))
    ELSE SubSeq(s, 1, IF Len(s) + n > 0 THEN Len(s) + n ELSE 0)

\* Platform.get_most_popular(n)
get_most_popular(plat, pool, h, n) == Slice(SortedDesc(plat, pool, h), n)

\* a remove_course that deletes every course with the title
RECURSIVE remove_course_all(_, _, _)
remove_course_all(plat, pool, title) ==
    IF plat = <<>> THEN [found |-> FALSE, courses |-> <<>>]
    ELSE LET r == remove_course_all(Tail(plat), pool, title)
         IN IF pool[Head(plat)].title = title
            THEN [found |-> TRUE, courses |-> r.courses]
            ELSE [found |-> r.found, courses |-> <<Head(plat)>> \o r.courses]

\* Platform.remove_course(title): delete the first course with that title
RECURSIVE remove_course(_, _, _)
remove_course(plat, pool, title) ==
    IF plat = <<>> THEN [found |-> FALSE, courses |-> <<>>]
    ELSE IF pool[Head(plat)].title = title
         THEN [found |-> TRUE, courses |-> Tail(plat)]
         ELSE LET r == remove_course(Tail(plat), pool, title)
              IN [found |-> r.found, courses |-> <<Head(plat)>> \o r.courses]

\* json.dump of course.to_dict(): the list is written out by value
JsonRecord(co, h) == [to_dict(co) EXCEPT !.students = h[co.students]]

\* data = [course.to_dict() for course in self.__courses], as a document
SavedDocument(plat, pool, h) ==
    [i \in 1..Len(plat) |-> JsonRecord(pool[plat[i]], h)]

\* a loop that keeps the courses rebuilt before the first KeyError
RECURSIVE BuildCourses_partial(_, _, _)
BuildCourses_partial(doc, pool, h) ==
    IF doc = <<>> THEN [ok |-> TRUE, ids |-> <<>>, courses |-> pool, heap |-> h]
    ELSE
      LET item == Head(doc)
          h1   == IF "students" \in DOMAIN item THEN Append(h, item.students) ELSE h
          data == IF "students" \in DOMAIN item
                  THEN [item EXCEPT !.students = Len(h1)] ELSE item
          r    == from_dict(data, h1)
      IN IF ~r.ok THEN [ok |-> TRUE, ids |-> <<>>, courses |-> pool, heap |-> h]
         ELSE LET pool1 == Append(pool, r.course)
                  rest  == BuildCourses_partial(Tail(doc), pool1, r.heap)
              IN [ok |-> TRUE, ids |-> <<Len(pool1)>> \o rest.ids,
                  courses |-> rest.courses, heap |-> rest.heap]

\* [Course.from_dict(item) for item in data]: json.load has made a new list
\* object for every "students" value; the comprehension builds the whole
\* list before anything is assigned, and stops at the first KeyError
RECURSIVE BuildCourses(_, _, _)
BuildCourses(doc, pool, h) ==
    IF doc = <<>> THEN [ok |-> TRUE, ids |-> <<>>, courses |-> pool, heap |-> h]
    ELSE
      LET item == Head(doc)
          h1   == IF "students" \in DOMAIN item THEN Append(h, item.students) ELSE h
          data == IF "students" \in DOMAIN item
                  THEN [item EXCEPT !.students = Len(h1)] ELSE item
          r    == from_dict(data, h1)
      IN IF ~r.ok THEN [ok |-> FALSE, ids |-> <<>>, courses |-> pool, heap |-> h]
         ELSE LET pool1 == Append(pool, r.course)
                  rest  == BuildCourses(Tail(doc), pool1, r.heap)
              IN IF ~rest.ok
                 THEN [ok |-> FALSE, ids |-> <<>>, courses |-> pool, heap |-> h]
                 ELSE [ok |-> TRUE, ids |-> <<Len(pool1)>> \o rest.ids,
                       courses |-> rest.courses, heap |-> rest.heap]

\* a load_from_json that empties the list before it opens the file
load_from_json_clearing(content, plat, pool, h) ==
    IF content = <<"absent">>
    THEN [out |-> "File not found", platform |-> <<>>, courses |-> pool, heap |-> h]
    ELSE IF content = <<"malformed">>
    THEN [out |-> "Error reading JSON", platform |-> <<>>, courses |-> pool, heap |-> h]
    ELSE LET r == BuildCourses(content[2], pool, h)
         IN IF r.ok
            THEN [out |-> "ok", platform |-> r.ids, courses |-> r.courses, heap |-> r.heap]
            ELSE [out |-> "KeyError", platform |-> plat, courses |-> pool, heap |-> h]

\* Platform.load_from_json: the outcome and the state it leaves
load_from_json(content, plat, pool, h) ==
    IF content = <<"absent">>
    THEN [out |-> "File not found", platform |-> plat, courses |-> pool, heap |-> h]
    ELSE IF content = <<"malformed">>
    THEN [out |-> "Error reading JSON", platform |-> plat, courses |-> pool, heap |-> h]
    ELSE LET r == BuildCourses(content[2], pool, h)
         IN IF r.ok
            THEN [out |-> "ok", platform |-> r.ids, courses |-> r.courses, heap |-> r.heap]
            ELSE [out |-> "KeyError", platform |-> plat, courses |-> pool, heap |-> h]

\* ------------------------------------------------- files written by others

\* records as json.load decodes them: the student list is a value
OverFull ==
    [type |-> "ProgrammingCourse", title |-> "t1", instructor |-> "ivanov",
     start_date |-> "2025-01-10", end_date |-> "2025-04-10",
     max_students |-> 1, students |-> <<"A", "B">>, language |-> "py"]
NoTitle ==
    [type |-> "Course", instructor |-> "ivanov",
     start_date |-> "2025-01-10", end_date |-> "2025-04-10",
     max_students |-> 1, students |-> <<"A">>]
Untagged ==
    [title |-> "t2", instructor |-> "ivanov",
     start_date |-> "2025-01-10", end_date |-> "2025-04-10",
     max_students |-> 2]

\* what another program may leave at the path
ExternalFiles ==
    { <<"absent">>, <<"malformed">>,
      <<"doc", <<OverFull>> >>,
      <<"doc", <<Untagged, NoTitle>> >>,
      <<"doc", <<Untagged, OverFull>> >> }

\* ------------------------------------------------------------------ state

Init ==
    /\ heap = <<>>
    /\ courses = <<>>
    /\ platform = <<>>
    /\ file = <<"absent">>
    /\ ret = NoRet

Ids == DOMAIN courses

\* a constructor call of one of the four classes
Construct(maxObjects, kinds, titles, caps) ==
    /\ Len(courses) < maxObjects
    /\ \E kind \in kinds, title \in titles, instructor \in Instructors,
          start_date \in StartDates, end_date \in EndDates,
          max_students \in caps, attr \in Attrs :
         LET l == Len(heap) + 1
             co == IF kind = "ProgrammingCourse" THEN
                     ProgrammingCourse_init(title, instructor, start_date, end_date, max_students, attr, l)
                   ELSE IF kind = "DesignCourse" THEN
                     DesignCourse_init(title, instructor, start_date, end_date, max_students, attr, l)
                   ELSE IF kind = "ScienceCourse" THEN
                     ScienceCourse_init(title, instructor, start_date, end_date, max_students, attr, l)
                   ELSE Course_init(title, instructor, start_date, end_date, max_students, l)
         IN /\ heap' = Append(heap, <<>>)
            /\ courses' = Append(courses, co)
            /\ ret' = [NoRet EXCEPT !.op = "new", !.target = Len(courses) + 1]
    /\ UNCHANGED <<platform, file>>

\* c.add_student(name)
Enroll(names) ==
    \E c \in Ids, name \in names :
      LET r == add_student(courses[c], heap, name)
      IN /\ heap' = r.heap
         /\ ret' = [NoRet EXCEPT !.op = "add_student", !.target = c, !.name = name,
                        !.out = IF r.raised THEN "CourseFullError" ELSE "ok"]
         /\ UNCHANGED <<courses, platform, file>>

\* ------------------------------------------------------ course operations

NewCourse == Construct(MaxCourses, Kinds, {"t1"}, 0..MaxCap)

AddStudent == Enroll(Names)

\* c.completion_rate()
CompletionRate ==
    \E c \in Ids :
      /\ ret' = [NoRet EXCEPT !.op = "completion_rate", !.target = c,
                     !.rate = completion_rate(courses[c], heap)]
      /\ UNCHANGED <<heap, courses, platform, file>>

\* Course.from_dict(c.to_dict()), the dictionary staying in memory
RoundTrip ==
    /\ Len(courses) < MaxCourses
    /\ \E c \in Ids :
         LET r == from_dict(to_dict(courses[c]), heap)
         IN /\ r.ok
            /\ heap' = r.heap
            /\ courses' = Append(courses, r.course)
            /\ ret' = [NoRet EXCEPT !.op = "round_trip", !.target = Len(courses) + 1,
                           !.n = c]
    /\ UNCHANGED <<platform, file>>

\* Course.from_dict(item) on one record decoded from JSON text
FromRecord ==
    /\ Len(courses) < MaxCourses
    /\ \E item \in {OverFull, Untagged, NoTitle} :
         LET r == BuildCourses(<<item>>, courses, heap)
         IN /\ heap' = r.heap
            /\ courses' = r.courses
            /\ ret' = [NoRet EXCEPT !.op = "from_dict",
                           !.target = IF r.ok THEN Len(courses) + 1 ELSE 0,
                           !.out = IF r.ok THEN "ok" ELSE "KeyError"]
    /\ UNCHANGED <<platform, file>>

Next ==
    \/ NewCourse
    \/ AddStudent
    \/ CompletionRate
    \/ RoundTrip
    \/ FromRecord

Spec == Init /\ [][Next]_vars

\* ---------------------------------------------------- platform operations

NewListedCourse == Construct(MaxPool, {"Course"}, {"t1"}, {2})

AddListedStudent == Enroll({"A"})

\* platform.add_course(c)
AddCourse ==
    /\ Len(platform) < MaxPlat
    /\ \E c \in Ids :
         /\ platform' = Append(platform, c)
         /\ ret' = [NoRet EXCEPT !.op = "add_course", !.target = c]
    /\ UNCHANGED <<heap, courses, file>>

\* platform.get_most_popular(n)
GetMostPopular ==
    \E n \in (-MaxN)..MaxN :
      /\ ret' = [NoRet EXCEPT !.op = "get_most_popular", !.n = n,
                     !.list = get_most_popular(platform, courses, heap, n)]
      /\ UNCHANGED <<heap, courses, platform, file>>

PlatformNext ==
    \/ NewListedCourse
    \/ AddListedStudent
    \/ AddCourse
    \/ GetMostPopular

PlatformSpec == Init /\ [][PlatformNext]_vars

\* ------------------------------------------------------ removal by title

NewTitledCourse == Construct(MaxPool, {"Course"}, Titles, {1})

\* platform.remove_course(title)
RemoveCourse ==
    \E title \in Titles :
      LET r == remove_course(platform, courses, title)
      IN /\ platform' = r.courses
         /\ ret' = [NoRet EXCEPT !.op = "remove_course", !.name = title,
                        !.out = IF r.found THEN "True" ELSE "False"]
         /\ UNCHANGED <<heap, courses, file>>

RemovalNext ==
    \/ NewTitledCourse
    \/ AddCourse
    \/ RemoveCourse

RemovalSpec == Init /\ [][RemovalNext]_vars

\* -------------------------------------------------------- file operations

NewStoredCourse == Construct(MaxStore, {"ProgrammingCourse"}, {"t1"}, {1})

AddStoredStudent == Enroll({"A"})

\* platform.add_course(c), for a platform that is then saved
AddStoredCourse ==
    /\ Len(platform) < MaxStore - 1
    /\ \E c \in Ids :
         /\ platform' = Append(platform, c)
         /\ ret' = [NoRet EXCEPT !.op = "add_course", !.target = c]
    /\ UNCHANGED <<heap, courses, file>>

\* platform.save_to_json(filename)
SaveToJson ==
    /\ file' = <<"doc", SavedDocument(platform, courses, heap)>>
    /\ ret' = [NoRet EXCEPT !.op = "save_to_json"]
    /\ UNCHANGED <<heap, courses, platform>>

\* platform.load_from_json(filename)
LoadFromJson ==
    LET r == load_from_json(file, platform, courses, heap)
    IN /\ Len(r.courses) <= MaxStore
       /\ platform' = r.platform
       /\ courses' = r.courses
       /\ heap' = r.heap
       /\ ret' = [NoRet EXCEPT !.op = "load_from_json", !.out = r.out]
       /\ UNCHANGED file

\* another program writes, damages or deletes the file
ExternalWrite ==
    /\ \E content \in ExternalFiles : file' = content
    /\ ret' = [NoRet EXCEPT !.op = "external_write"]
    /\ UNCHANGED <<heap, courses, platform>>

StoreNext ==
    \/ NewStoredCourse
    \/ AddStoredStudent
    \/ AddStoredCourse
    \/ SaveToJson
    \/ LoadFromJson
    \/ ExternalWrite

StoreSpec == Init /\ [][StoreNext]_vars

\* ------------------------------------------------------------- properties

WithinCapacity(c) == Len(students(c)) <= courses[c].max_students

\* C1 as stated: every course, constructed or rebuilt by from_dict, has
\* len(students) <= max_students after any sequence of add_student calls.
C1_CapacityOfEveryCourse == \A c \in Ids : WithinCapacity(c)

\* C1 as amended: a course is over capacity only if from_dict rebuilt it
\* from a record that was over capacity, and then its list is still that
\* record's list; every other course has len(students) <= max_students
\* after any sequence of add_student calls.
C1_CapacityUnlessRebuiltOverFull ==
    \A c \in Ids :
      ~WithinCapacity(c) =>
        /\ courses[c].max_students = OverFull.max_students
        /\ students(c) = OverFull.students

C1_Witness ==
    /\ ret.op = "add_student"
    /\ ret.out = "CourseFullError"
    /\ Len(students(ret.target)) = courses[ret.target].max_students
    /\ courses[ret.target].max_students > 0
    /\ \E c \in Ids : ~WithinCapacity(c)

\* C2: Course.from_dict(c.to_dict()) has c's class, title, instructor,
\* dates, max_students, discriminating attribute and student list.
C2_RoundTrip ==
    ret.op = "round_trip" =>
      LET c == courses[ret.n]
          r == courses[ret.target]
      IN /\ r.kind = c.kind
         /\ r.title = c.title
         /\ r.instructor = c.instructor
         /\ r.start_date = c.start_date
         /\ r.end_date = c.end_date
         /\ r.max_students = c.max_students
         /\ Discriminator(r) = Discriminator(c)
         /\ students(ret.target) = students(ret.n)

\* C3: add_student on a full course raises CourseFullError and changes no
\* list and no attribute; on a course that is not full it appends the name
\* at the end of that course's list and changes nothing else.
C3_AddStudent ==
    [][ret'.op = "add_student" =>
        LET co == courses[ret'.target]
            l  == co.students
        IN /\ courses' = courses
           /\ platform' = platform
           /\ file' = file
           /\ DOMAIN heap' = DOMAIN heap
           /\ \A k \in DOMAIN heap : k # l => heap'[k] = heap[k]
           /\ IF Len(heap[l]) >= co.max_students
              THEN ret'.out = "CourseFullError" /\ heap'[l] = heap[l]
              ELSE ret'.out = "ok" /\ heap'[l] = heap[l] \o <<ret'.name>>
      ]_vars

C3_Witness ==
    /\ ret.op = "add_student"
    /\ ret.out = "CourseFullError"
    /\ students(ret.target) = <<"B", "A">>
    /\ \E c \in Ids : courses[c].max_students = 0

\* positions of the platform list ranked as get_most_popular ranks them:
\* i comes before j when it has more students, or as many and stands earlier
Before(i, j) ==
    LET ci == Len(students(platform[i]))
        cj == Len(students(platform[j]))
    IN ci > cj \/ (ci = cj /\ i < j)

Min(a, b) == IF a < b THEN a ELSE b

\* list holds the courses at the k best-ranked positions, best first
IsRanking(list, k) ==
    /\ Len(list) = k
    /\ \E p \in [1..k -> 1..Len(platform)] :
         /\ \A i \in 1..k : list[i] = platform[p[i]]
         /\ \A i, j \in 1..k : i < j => Before(p[i], p[j])
         /\ \A i \in 1..k : \A q \in 1..Len(platform) :
              (\A j \in 1..k : p[j] # q) => Before(p[i], q)

\* C4: for n > 0, get_most_popular(n) returns min(n, number of courses)
\* courses by descending student count, equal counts in platform order,
\* and leaves the platform's course list unchanged.
C4_MostPopular ==
    [][(ret'.op = "get_most_popular" /\ ret'.n > 0) =>
        /\ platform' = platform
        /\ IsRanking(ret'.list, Min(ret'.n, Len(platform)))
      ]_vars

C4_Witness ==
    /\ ret.op = "get_most_popular"
    /\ ret.n = 2
    /\ Len(platform) = 3
    /\ Len(ret.list) = 2
    /\ ret.list[1] # ret.list[2]
    /\ Len(students(ret.list[1])) = Len(students(ret.list[2]))
    /\ Len(students(platform[1])) < Len(students(ret.list[1]))

\* C5: for every n <= 0, get_most_popular(n) returns an empty sequence.
C5_EmptyForNonPositive ==
    (ret.op = "get_most_popular" /\ ret.n <= 0) => ret.list = <<>>

\* positions of the platform list whose course has the title
Matches(title) == {i \in 1..Len(platform) : courses[platform[i]].title = title}

\* C6: remove_course(title) returns True exactly when a course has the
\* title and then deletes the first such course only; otherwise it returns
\* False and the list is unchanged.
C6_RemoveCourse ==
    [][ret'.op = "remove_course" =>
        LET m == Matches(ret'.name)
        IN /\ courses' = courses
           /\ heap' = heap
           /\ IF m # {}
              THEN LET k == CHOOSE i \in m : \A j \in m : i <= j
                   IN /\ ret'.out = "True"
                      /\ platform' = SubSeq(platform, 1, k - 1)
                                       \o SubSeq(platform, k + 1, Len(platform))
              ELSE /\ ret'.out = "False"
                   /\ platform' = platform
      ]_vars

C6_Witness ==
    /\ ret.op = "remove_course"
    /\ ret.out = "True"
    /\ Len(platform) = 2
    /\ courses[platform[1]].title # ret.name
    /\ courses[platform[2]].title = ret.name

\* C7: load_from_json on a missing file or a malformed document reports
\* the failure, raises nothing and leaves the course list as it was.
C7_LoadFailureKeepsCourses ==
    [][(ret'.op = "load_from_json" /\ file \in {<<"absent">>, <<"malformed">>}) =>
        /\ ret'.out = IF file = <<"absent">> THEN "File not found"
                      ELSE "Error reading JSON"
        /\ platform' = platform
        /\ courses' = courses
        /\ heap' = heap
      ]_vars

C7_Witness ==
    /\ ret.op = "load_from_json"
    /\ ret.out = "Error reading JSON"
    /\ Len(platform) = 2

\* C8: completion_rate() equals 100 * len(students) / max_students and lies
\* in [0, 100]; it is 0 when max_students = 0.
C8_CompletionRate ==
    ret.op = "completion_rate" =>
      LET co  == courses[ret.target]
          num == ret.rate[1]
          den == ret.rate[2]
      IN /\ den > 0
         /\ co.max_students = 0 => num = 0
         /\ co.max_students # 0 =>
              num * co.max_students = 100 * Len(students(ret.target)) * den
         /\ 0 <= num
         /\ num <= 100 * den

\* C9: the student list of a course changes only by add_student on that
\* same course, also for a course and its rebuilt copy.
C9_OwnStudentList ==
    [][\A c \in Ids :
         heap'[courses[c].students] # heap[courses[c].students] =>
           (ret'.op = "add_student" /\ ret'.target = c)
      ]_vars

\* the course a record must be rebuilt as
Rebuilt(item, co, h) ==
    /\ co.title = item.title
    /\ co.instructor = item.instructor
    /\ co.start_date = item.start_date
    /\ co.end_date = item.end_date
    /\ co.max_students = item.max_students
    /\ co.kind = (IF "type" \in DOMAIN item /\ item.type \in Kinds
                  THEN item.type ELSE "Course")
    /\ h[co.students] = (IF "students" \in DOMAIN item THEN item.students ELSE <<>>)

\* C10: load_from_json of a document with a record that cannot be rebuilt
\* leaves the course list as it was; otherwise the list becomes the rebuilt
\* courses in document order, all of them new objects.
C10_LoadAllOrNothing ==
    [][(ret'.op = "load_from_json" /\ file[1] = "doc") =>
        LET doc == file[2]
        IN IF \E i \in 1..Len(doc) : ~(RequiredKeys \subseteq DOMAIN doc[i])
           THEN platform' = platform /\ courses' = courses
           ELSE /\ Len(platform') = Len(doc)
                /\ \A i \in 1..Len(doc) :
                     /\ platform'[i] \notin Ids
                     /\ \A j \in 1..Len(doc) : i < j => platform'[i] # platform'[j]
                     /\ Rebuilt(doc[i], courses'[platform'[i]], heap')
                /\ \A c \in Ids : courses'[c] = courses[c]
      ]_vars

C10_Witness ==
    /\ ret.op = "load_from_json"
    /\ ret.out = "KeyError"
    /\ file = <<"doc", <<Untagged, NoTitle>> >>
    /\ Len(platform) = 2

====
